---- MODULE Spec2Model ----
(***************************************************************************)
(* A model of the car trajectory formulator (CarPlanner) of optrol and of  *)
(* the variable/constraint registry (Problem) it is built on.              *)
(*                                                                         *)
(* Conventions of the model:                                               *)
(*  - a name is the sequence of its characters, so that the code's string  *)
(*    concatenations ("k" + str(j) + str(i)) and the registry's substring  *)
(*    lookup are computed on characters;                                   *)
(*  - a symbolic expression is a record that says which quantity it is:    *)
(*    a decision variable, the running value of the forward simulation of  *)
(*    a segment after a number of Euler updates, an obstacle distance, a   *)
(*    continuity residual or the time sum;                                 *)
(*  - headings are counted in quarter turns, so cos and sin are exact on   *)
(*    the integers; a number that is not an integer is a fraction n/d;     *)
(*  - a Python exception ends the operation that raised it and leaves the  *)
(*    object as it was at that point; it is recorded in ret.err.           *)
(***************************************************************************)
EXTENDS Integers, Sequences, FiniteSets, TLC

\* ------------------------------------------------------------- bounds
MaxN == 3          \* number_of_waypoints ranges over 2..MaxN
MaxG == 2          \* granularity ranges over 1..MaxG
MaxPrep == 1       \* prep_constraints invocations on one planner
MaxSolve == 1      \* external solver invocations on one planner
MaxCoord == 2      \* test points of the numeric evaluations: -MaxCoord..MaxCoord

\* ------------------------------------------------------------- constants
t_max == 40

VARIABLES
    number_of_waypoints,   \* self.number_of_waypoints
    granularity,           \* self.granularity
    robot,                 \* the robot's accessors: max_linear_velocity, minimum_turning_radius
    waypoints,             \* len(self.waypoints), or -1 while the attribute does not exist
    variables,             \* the registry's variables, in declaration order
    constraints,           \* the registry's constraints, in declaration order
    initial_state,         \* <<>> while unset, else <<State>>
    final_state,           \* <<>> while unset, else <<State>>
    obstacles,             \* <<>> while unset, else <<list of obstacles>>
    set_calls,             \* set_constraint / set_equality_constraint calls made so far
    prep_calls,            \* prep_constraints invocations so far
    solver_runs,           \* the invocations of the external solver
    ret                    \* the last operation, the exception it raised and its value

vars == <<number_of_waypoints, granularity, robot, waypoints, variables, constraints,
          initial_state, final_state, obstacles, set_calls, prep_calls, solver_runs, ret>>

\* ------------------------------------------------------------- numbers
Abs(a) == IF a < 0 THEN 0 - a ELSE a

Sign(a) == IF a < 0 THEN 0 - 1 ELSE IF a > 0 THEN 1 ELSE 0

\* cos and sin of a heading counted in quarter turns
Cos4(th) == CASE th % 4 = 0 -> 1 [] th % 4 = 1 -> 0 [] th % 4 = 2 -> 0 - 1 [] OTHER -> 0

Sin4(th) == CASE th % 4 = 0 -> 0 [] th % 4 = 1 -> 1 [] th % 4 = 2 -> 0 [] OTHER -> 0 - 1

\* a value of the guess vector: the fraction n/d (tag "rat"), or a real number
\* the integers do not represent, named by its tag and the number of updates n
Rat(n, d) == [tag |-> "rat", n |-> n, d |-> d]

Sym(tag, n) == [tag |-> tag, n |-> n, d |-> 0]

IsRat(a) == a.tag = "rat"

RatEq(a, b) == IsRat(a) /\ IsRat(b) /\ a.n * b.d = b.n * a.d

RatAdd(a, b) == Rat(a.n * b.d + b.n * a.d, a.d * b.d)

\* a bound of a constraint: -inf, +inf or a finite fraction
NegInf == [inf |-> 0 - 1, n |-> 0, d |-> 1]

PosInf == [inf |-> 1, n |-> 0, d |-> 1]

Fin(n, d) == [inf |-> 0, n |-> n, d |-> d]

BoundEq(a, b) == a.inf = b.inf /\ (a.inf = 0 => a.n * b.d = b.n * a.d)

\* ------------------------------------------------------------- names
DigitChars == <<"0", "1", "2", "3", "4", "5", "6", "7", "8", "9">>

RECURSIVE str(_)
str(n) == IF n < 10 THEN <<DigitChars[n + 1]>>
          ELSE str(n \div 10) \o <<DigitChars[(n % 10) + 1]>>

S_x == <<"x">>
S_y == <<"y">>
S_k == <<"k">>
S_v == <<"v">>
S_t == <<"t">>
S_X == <<"X">>
S_U == <<"U">>
S_theta == <<"t", "h", "e", "t", "a">>
S_x0 == <<"x", "0">>
S_y0 == <<"y", "0">>
S_th0 == <<"t", "h", "0">>
S_xn == <<"x", "n">>
S_yn == <<"y", "n">>
S_thn == <<"t", "h", "n">>
S_time_sum == <<"t", "i", "m", "e", "_", "s", "u", "m">>
S_intermediate == <<"i", "n", "t", "e", "r", "m", "e", "d", "i", "a", "t", "e">>
S_intermediate_x == S_intermediate \o <<"_", "x">>
S_intermediate_y == S_intermediate \o <<"_", "y">>
S_intermediate_th == S_intermediate \o <<"_", "t", "h">>
S_check_obs == <<"c", "h", "e", "c", "k", "_", "o", "b", "s">>
S_command == <<"c", "o", "m", "m", "a", "n", "d">>

\* pattern in name, as Python's substring test
Contains(name, pattern) ==
    \E o \in 0..(Len(name) - Len(pattern)) :
        \A p \in 1..Len(pattern) : name[o + p] = pattern[p]

\* ------------------------------------------------------------- expressions
Var(i, comp) == [kind |-> "var", wp |-> i, comp |-> comp, steps |-> 0, obs |-> <<>>]

Sim(i, steps, comp) == [kind |-> "sim", wp |-> i, comp |-> comp, steps |-> steps, obs |-> <<>>]

ObsExpr(i, steps, obstacle) ==
    [kind |-> "obs", wp |-> i, comp |-> "xy", steps |-> steps, obs |-> obstacle]

Cont(i, steps, comp) == [kind |-> "cont", wp |-> i, comp |-> comp, steps |-> steps, obs |-> <<>>]

TimeSum(n) == [kind |-> "time_sum", wp |-> n, comp |-> "t", steps |-> 0, obs |-> <<>>]

\* ------------------------------------------------------------- the registry
\* one call of set_constraint: the name, the expression and the two bounds
Call(name, expr, lb, ub) == [name |-> name, expr |-> expr, lb |-> lb, ub |-> ub]

\* set_equality_constraint(name, expr, target): lower = upper = target
EqCall(name, expr, target) == Call(name, expr, Fin(target, 1), Fin(target, 1))

HasName(reg, name) == \E p \in 1..Len(reg) : reg[p].name = name

\* set_constraint on registry reg: a name already there is a DuplicateNameError
\* and registers nothing
set_constraint(reg, c) ==
    IF HasName(reg, c.name) THEN [reg |-> reg, err |-> "DuplicateNameError"]
    ELSE [reg |-> Append(reg, c), err |-> "ok"]

\* set_variable: the same for a decision variable
set_variable(reg, v) ==
    IF HasName(reg, v.name) THEN [reg |-> reg, err |-> "DuplicateNameError"]
    ELSE [reg |-> Append(reg, v), err |-> "ok"]

\* the calls of a list made in order, up to and including the first that raises
RECURSIVE RegisterAll(_, _, _)
RegisterAll(reg, calls, made) ==
    IF calls = <<>> THEN [reg |-> reg, made |-> made, err |-> "ok"]
    ELSE LET r == set_constraint(reg, Head(calls))
         IN IF r.err # "ok" THEN [reg |-> reg, made |-> made + 1, err |-> r.err]
            ELSE RegisterAll(r.reg, Tail(calls), made + 1)

\* get_constraints(): expressions, lower bounds, upper bounds
get_constraints(reg) ==
    << [p \in 1..Len(reg) |-> reg[p].expr],
       [p \in 1..Len(reg) |-> reg[p].lb],
       [p \in 1..Len(reg) |-> reg[p].ub] >>

\* get_variables(): the handles in declaration order
get_variables(reg) == [p \in 1..Len(reg) |-> reg[p].name]

\* get_constraint_idx_by_pattern(pattern): the 0-based positions, in declaration
\* order, of the constraints whose name contains the pattern
RECURSIVE IdxFrom(_, _, _)
IdxFrom(reg, pattern, p) ==
    IF p > Len(reg) THEN <<>>
    ELSE (IF Contains(reg[p].name, pattern) THEN <<p - 1>> ELSE <<>>)
         \o IdxFrom(reg, pattern, p + 1)

get_constraint_idx_by_pattern(reg, pattern) == IdxFrom(reg, pattern, 1)

\* ------------------------------------------------------------- CarPlanner
\* prep_robot_information: self.k = 1/minimum_turning_radius
k_max(rb) == Fin(1, rb.minimum_turning_radius)

\* prep_robot_information: self.v = max_linear_velocity*0.4
v_cruise(rb) == Fin(4 * rb.max_linear_velocity, 10)

Neg(b) == Fin(0 - b.n, b.d)

\* the three handles of waypoint i: X (4 entries), U (2 entries), t (1 entry)
WaypointHandles(i) ==
    << [name |-> S_X \o str(i), dim |-> 4],
       [name |-> S_U \o str(i), dim |-> 2],
       [name |-> S_t \o str(i), dim |-> 1] >>

\* the scalar order of one waypoint in the flattened decision vector
VariableOrder == <<"x", "y", "theta", "k", "s", "v", "t">>

RECURSIVE DeclareAll(_, _)
DeclareAll(reg, hs) ==
    IF hs = <<>> THEN [reg |-> reg, err |-> "ok"]
    ELSE LET r == set_variable(reg, Head(hs))
         IN IF r.err # "ok" THEN r ELSE DeclareAll(r.reg, Tail(hs))

\* prep_problem's loop from waypoint i on: the registry, the waypoints appended
\* and the exception that ended it
RECURSIVE prep_problem_loop(_, _, _)
prep_problem_loop(reg, i, n) ==
    IF i >= n THEN [reg |-> reg, count |-> i, err |-> "ok"]
    ELSE LET r == DeclareAll(reg, WaypointHandles(i))
         IN IF r.err # "ok" THEN [reg |-> r.reg, count |-> i, err |-> r.err]
            ELSE prep_problem_loop(r.reg, i + 1, n)

\* the boundary conditions on the first and the last waypoint
BoundaryCalls(n, init, final) ==
    << EqCall(S_x0, Var(0, "x"), init.x),
       EqCall(S_y0, Var(0, "y"), init.y),
       EqCall(S_th0, Var(0, "theta"), init.theta),
       EqCall(S_xn, Var(n - 1, "x"), final.x),
       EqCall(S_yn, Var(n - 1, "y"), final.y),
       EqCall(S_thn, Var(n - 1, "theta"), final.theta) >>

\* the velocity, curvature and time constraints of waypoint i
BoxCalls(i, rb) ==
    << Call(S_v \o str(i), Var(i, "v"), Fin(0, 1), v_cruise(rb)),
       Call(S_k \o str(i), Var(i, "k"), Neg(k_max(rb)), k_max(rb)),
       Call(S_t \o str(i), Var(i, "t"), Fin(0, 1), PosInf) >>

\* the obstacle checks of one sub-step, from obstacle obs_id on
RECURSIVE ObstacleCalls(_, _, _, _)
ObstacleCalls(i, j, obs, obs_id) ==
    IF obs_id >= Len(obs) THEN <<>>
    ELSE << Call(S_check_obs \o str(obs_id) \o str(j) \o str(i),
                 ObsExpr(i, j + 1, obs[obs_id + 1]), Fin(0, 1), PosInf) >>
         \o ObstacleCalls(i, j, obs, obs_id + 1)

\* the body of the sub-step loop for loop index j: the running state has had
\* j + 1 Euler updates when its constraints are registered
SubStepCalls(i, j, obs, rb) ==
    << Call(S_k \o str(j) \o str(i), Sim(i, j + 1, "k"), Neg(k_max(rb)), k_max(rb)),
       Call(S_intermediate_x \o str(j) \o str(i), Sim(i, j + 1, "x"), NegInf, PosInf),
       Call(S_intermediate_y \o str(j) \o str(i), Sim(i, j + 1, "y"), NegInf, PosInf),
       Call(S_intermediate_th \o str(j) \o str(i), Sim(i, j + 1, "theta"), NegInf, PosInf) >>
    \o ObstacleCalls(i, j, obs, 0)

\* the number of iterations of the sub-step loop: range(self.granularity + 1)
SubStepCount(g) == g + 1

RECURSIVE SubStepLoop(_, _, _, _, _)
SubStepLoop(i, j, count, obs, rb) ==
    IF j >= count THEN <<>>
    ELSE SubStepCalls(i, j, obs, rb) \o SubStepLoop(i, j + 1, count, obs, rb)

\* the G2 continuity constraints of waypoint i against the running state left
\* by the loop
ContinuityCalls(i, steps) ==
    << EqCall(S_x \o str(i), Cont(i, steps, "x"), 0),
       EqCall(S_y \o str(i), Cont(i, steps, "y"), 0),
       EqCall(S_theta \o str(i), Cont(i, steps, "theta"), 0),
       EqCall(S_k \o str(i), Cont(i, steps, "k"), 0) >>

SegmentCalls(i, g, obs, rb) ==
    BoxCalls(i, rb)
    \o SubStepLoop(i, 0, SubStepCount(g), obs, rb)
    \o ContinuityCalls(i, SubStepCount(g))

RECURSIVE SegmentLoop(_, _, _, _, _)
SegmentLoop(i, n, g, obs, rb) ==
    IF i >= n THEN <<>>
    ELSE SegmentCalls(i, g, obs, rb) \o SegmentLoop(i + 1, n, g, obs, rb)

\* every registration prep_constraints issues, in order, when none raises
prep_constraints_calls(n, g, init, final, obs, rb) ==
    BoundaryCalls(n, init, final)
    \o SegmentLoop(1, n, g, obs, rb)
    \o << Call(S_time_sum, TimeSum(n - 1), Fin(0, 1), Fin(t_max, 1)) >>

\* objective(): reads waypoints i and i-1 for i in 1..n-1; the exception it
\* raises, if any
objective(n, wps) ==
    IF n < 2 THEN "ok"
    ELSE IF wps < 0 THEN "AttributeError"
    ELSE IF wps < n THEN "IndexError"
    ELSE "ok"

\* abs(slope) < 1e-2, for slope = dy/dx and dx # 0
StraightLine(dx, dy) == 100 * Abs(dy) < Abs(dx)

\* the straight-line guess along the x axis is the one whose numbers are
\* fractions: r = |dx|/2; every other r is a square root
ExactGuess(dx, dy) == StraightLine(dx, dy) /\ dy = 0

\* k of the guess: 0 on the straight line, self.v/r on the arc
GuessK(dx, dy) == IF StraightLine(dx, dy) THEN Rat(0, 1) ELSE Sym("k_arc", 0)

\* dt of the guess: t/number_of_waypoints, t = distance/self.v, distance = r
\* on the straight line and r*pi on the arc
GuessDt(dx, dy, v, n) ==
    IF ExactGuess(dx, dy) THEN Rat(Abs(dx) * v.d, 2 * v.n * n) ELSE Sym("dt", 0)

\* one update of the running pose of the guess:
\* x += sign(dx)*v*cos(theta)*dt; y += sign(dy)*v*sin(theta)*dt; theta += v*k*dt
GuessUpdate(p, dx, dy, v, dt) ==
    IF ExactGuess(dx, dy) /\ IsRat(p.x)
    THEN [x |-> RatAdd(p.x, Rat(Sign(dx) * Cos4(p.theta.n) * v.n * dt.n, v.d * dt.d)),
          y |-> RatAdd(p.y, Rat(Sign(dy) * Sin4(p.theta.n) * v.n * dt.n, v.d * dt.d)),
          theta |-> p.theta,
          upd |-> p.upd + 1]
    ELSE [x |-> Sym("x", p.upd + 1), y |-> Sym("y", p.upd + 1),
          theta |-> Sym("theta", p.upd + 1), upd |-> p.upd + 1]

\* GuessNext without the first-waypoint exception: the pose is updated after
\* every emitted waypoint
GuessNext_always(first, p, dx, dy, v, dt) == GuessUpdate(p, dx, dy, v, dt)

\* the pose after waypoint i was emitted: unchanged the first time
GuessNext(first, p, dx, dy, v, dt) ==
    IF ~first THEN GuessUpdate(p, dx, dy, v, dt) ELSE p

\* the seven entries appended for one waypoint
GuessEntries(p, k, v, dt) == <<p.x, p.y, p.theta, Rat(0, 1), dt, v, k>>

RECURSIVE GuessLoop(_, _, _, _, _, _, _, _)
GuessLoop(i, n, p, first, dx, dy, v, dt) ==
    IF i >= n THEN <<>>
    ELSE GuessEntries(p, GuessK(dx, dy), v, dt)
         \o GuessLoop(i + 1, n, GuessNext(first, p, dx, dy, v, dt), FALSE, dx, dy, v, dt)

\* initial_guess(): the exception raised and the vector returned
initial_guess(init, final, rb, n) ==
    LET dx == final.x - init.x
        dy == final.y - init.y
        v == Rat(v_cruise(rb).n, v_cruise(rb).d)
        p0 == [x |-> Rat(init.x, 1), y |-> Rat(init.y, 1),
               theta |-> Rat(init.theta, 1), upd |-> 0]
    IN IF dx = 0 THEN [err |-> "ZeroDivisionError", val |-> <<>>]
       ELSE [err |-> "ok",
             val |-> GuessLoop(0, n, p0, TRUE, dx, dy, v, GuessDt(dx, dy, v, n))]

\* the number of scalars of the flattened decision vector
NumScalars(reg) ==
    LET RECURSIVE Sum(_)
        Sum(p) == IF p > Len(reg) THEN 0 ELSE reg[p].dim + Sum(p + 1)
    IN Sum(1)

\* ------------------------------------------------------------- numeric values
\* one Euler update of the running state of a segment, in the code's order:
\* dk, then dx and dy with the old heading, then dth with the new dk
EulerStep(st, s, v, dt) ==
    LET dk == st.k + s * dt
    IN [x |-> st.x + v * Cos4(st.theta) * dt,
        y |-> st.y + v * Sin4(st.theta) * dt,
        theta |-> st.theta + dk * v * dt,
        k |-> dk]

RECURSIVE Simulate(_, _, _, _, _)
Simulate(st, s, v, dt, steps) ==
    IF steps = 0 THEN st ELSE Simulate(EulerStep(st, s, v, dt), s, v, dt, steps - 1)

\* the value of a continuity expression Xi.comp - running comp, for waypoint
\* i-1 at prev, waypoint i at xi with controls s, v and duration t = g*dt
ContValue(expr, prev, xi, s, v, dt) == xi[expr.comp] - Simulate(prev, s, v, dt, expr.steps)[expr.comp]

\* check_obstacle(x, y) for one obstacle (cx, cy, r, inflate)
check_obstacle(obstacle, x, y) ==
    (obstacle[1] - x) * (obstacle[1] - x) + (obstacle[2] - y) * (obstacle[2] - y)
    - (obstacle[3] + obstacle[4]) * (obstacle[3] + obstacle[4])

\* an integer value within the bounds of a constraint
Satisfies(c, val) ==
    /\ (c.lb.inf = 0 => c.lb.n <= val * c.lb.d)
    /\ (c.ub.inf = 0 => val * c.ub.d <= c.ub.n)
    /\ c.lb.inf # 1
    /\ c.ub.inf # 0 - 1

\* ------------------------------------------------------------- inputs
State(x, y, theta) == [x |-> x, y |-> y, theta |-> theta]

Query(init, final, obs) == [init |-> init, final |-> final, obstacles |-> obs]

\* the planning queries: along the x axis in both directions, equal x, an arc,
\* a heading of a quarter turn; with no, one and two obstacles
Queries ==
    { Query(State(0, 0, 0), State(0 - 2, 0, 0), <<>>),
      Query(State(0, 0, 0), State(0 - 2, 0, 0), << <<0, 0, 1, 0>>, <<1, 1, 0, 1>> >>),
      Query(State(0 - 2, 0, 0), State(0, 0, 0), << <<0, 0, 1, 1>> >>),
      Query(State(0, 0, 0), State(0, 2, 0), <<>>),
      Query(State(0, 0, 0), State(0, 0, 0), << <<0, 0, 1, 1>> >>),
      Query(State(0, 0, 0), State(1, 1, 1), << <<0, 0, 1, 1>> >>),
      Query(State(1, 1, 1), State(0 - 2, 1, 1), <<>>) }

Robots == {[max_linear_velocity |-> 1, minimum_turning_radius |-> 2]}

Ret(op, err, val) == [op |-> op, err |-> err, val |-> val]

\* ------------------------------------------------------------- operations
Init ==
    /\ number_of_waypoints \in 2..MaxN
    /\ granularity \in 1..MaxG
    /\ robot \in Robots
    /\ waypoints = 0 - 1
    /\ variables = <<>>
    /\ constraints = <<>>
    /\ initial_state = <<>>
    /\ final_state = <<>>
    /\ obstacles = <<>>
    /\ set_calls = 0
    /\ prep_calls = 0
    /\ solver_runs = <<>>
    /\ ret = Ret("init", "ok", <<>>)

\* prep_problem(): self.waypoints = [], then the declaration loop
prep_problem ==
    LET r == prep_problem_loop(variables, 0, number_of_waypoints)
    IN /\ waypoints' = r.count
       /\ variables' = r.reg
       /\ ret' = Ret("prep_problem", r.err, <<>>)
       /\ UNCHANGED <<number_of_waypoints, granularity, robot, constraints, initial_state,
                      final_state, obstacles, set_calls, prep_calls, solver_runs>>

\* prep_constraints(init=, final=, obstacles=)
prep_constraints(init, final, obs) ==
    /\ prep_calls < MaxPrep
    /\ prep_calls' = prep_calls + 1
    /\ initial_state' = <<init>>
    /\ final_state' = <<final>>
    /\ obstacles' = <<obs>>
    /\ IF waypoints < 1
       THEN /\ ret' = Ret("prep_constraints",
                          IF waypoints < 0 THEN "AttributeError" ELSE "IndexError", <<>>)
            /\ UNCHANGED <<constraints, set_calls>>
       ELSE LET r == RegisterAll(constraints,
                                 prep_constraints_calls(number_of_waypoints, granularity,
                                                        init, final, obs, robot), 0)
            IN /\ constraints' = r.reg
               /\ set_calls' = set_calls + r.made
               /\ ret' = Ret("prep_constraints", r.err, <<>>)
    /\ UNCHANGED <<number_of_waypoints, granularity, robot, waypoints, variables, solver_runs>>

\* initial_guess()
InitialGuess ==
    /\ ret' = IF initial_state = <<>> \/ final_state = <<>>
              THEN Ret("initial_guess", "AttributeError", <<>>)
              ELSE LET g == initial_guess(initial_state[1], final_state[1], robot,
                                          number_of_waypoints)
                   IN Ret("initial_guess", g.err, g.val)
    /\ UNCHANGED <<number_of_waypoints, granularity, robot, waypoints, variables, constraints,
                   initial_state, final_state, obstacles, set_calls, prep_calls, solver_runs>>

\* one invocation of the external solver
Run(x0, reg, vs) == [x0 |-> x0, nx |-> NumScalars(vs), ng |-> Len(get_constraints(reg)[1]),
                     nlb |-> Len(get_constraints(reg)[2]), nub |-> Len(get_constraints(reg)[3])]

\* solve(warm_start=...) when warm, solve() otherwise
solve(warm) ==
    /\ Len(solver_runs) < MaxSolve
    /\ LET o == objective(number_of_waypoints, waypoints)
           g == IF initial_state = <<>> \/ final_state = <<>>
                THEN [err |-> "AttributeError", val |-> <<>>]
                ELSE initial_guess(initial_state[1], final_state[1], robot,
                                   number_of_waypoints)
       IN IF o # "ok"
          THEN /\ ret' = Ret("solve", o, <<>>)
               /\ UNCHANGED solver_runs
          ELSE IF warm
          THEN /\ solver_runs' = Append(solver_runs, Run("warm_start", constraints, variables))
               /\ ret' = Ret("solve", "ok", <<>>)
          ELSE IF g.err # "ok"
          THEN /\ ret' = Ret("solve", g.err, <<>>)
               /\ UNCHANGED solver_runs
          ELSE /\ solver_runs' = Append(solver_runs,
                                        Run("initial_guess", constraints, variables))
               /\ ret' = Ret("solve", "ok", g.val)
    /\ UNCHANGED <<number_of_waypoints, granularity, robot, waypoints, variables, constraints,
                   initial_state, final_state, obstacles, set_calls, prep_calls>>

Next ==
    \/ prep_problem
    \/ \E q \in Queries : prep_constraints(q.init, q.final, q.obstacles)
    \/ InitialGuess
    \/ \E warm \in BOOLEAN : solve(warm)

Spec == Init /\ [][Next]_vars

\* ------------------------------------------------------------- claims
\* the state right after the first prep_constraints of a planner whose
\* waypoints are declared
PrepRan ==
    /\ ret.op = "prep_constraints"
    /\ prep_calls = 1
    /\ waypoints = number_of_waypoints

Coords == (0 - MaxCoord)..MaxCoord

TestStates == [x : Coords, y : Coords, theta : 0..1, k : 0..1]

ValEq(a, b) == IF IsRat(a) /\ IsRat(b) THEN RatEq(a, b) ELSE a = b

\* 0-based slot of a component in one waypoint of the decision vector
Slot(comp) == (CHOOSE q \in 1..Len(VariableOrder) : VariableOrder[q] = comp) - 1

\* entry of the guess vector: component comp of waypoint i
GuessAt(val, i, comp) == val[7 * i + Slot(comp) + 1]

\* C1: every continuity constraint registered by prep_constraints is taken
\* against the state after exactly `granularity` Euler sub-steps of size
\* t/granularity (simulated time t), so a waypoint set to the reference
\* granularity-step simulation has residual zero.
C1_SubSteps ==
    PrepRan =>
        \A p \in 1..Len(constraints) :
            constraints[p].expr.kind = "cont" =>
                /\ constraints[p].expr.steps = granularity
                /\ \A dt \in 0..1 : constraints[p].expr.steps * dt = granularity * dt
                /\ \A prev \in TestStates, s \in 0..1, v \in 0..1, dt \in 0..1 :
                       ContValue(constraints[p].expr, prev,
                                 Simulate(prev, s, v, dt, granularity), s, v, dt) = 0

\* C2: the names registered by one run of prep_constraints are pairwise
\* distinct, so the run never meets a duplicate name.
C2_NamesDistinct ==
    /\ (initial_state # <<>> /\ final_state # <<>> /\ obstacles # <<>>) =>
           LET calls == prep_constraints_calls(number_of_waypoints, granularity,
                                               initial_state[1], final_state[1],
                                               obstacles[1], robot)
           IN \A p, q \in 1..Len(calls) : p # q => calls[p].name # calls[q].name
    /\ PrepRan => ret.err # "DuplicateNameError"

\* C3: the three sequences of get_constraints have the same length, are
\* index-aligned per constraint, and that length is the number of
\* set_constraint / set_equality_constraint calls made.
C3_Aligned ==
    LET g == get_constraints(constraints)
    IN /\ Len(g[1]) = Len(g[2])
       /\ Len(g[2]) = Len(g[3])
       /\ \A p \in 1..Len(constraints) :
              /\ g[1][p] = constraints[p].expr
              /\ g[2][p] = constraints[p].lb
              /\ g[3][p] = constraints[p].ub
       /\ Len(g[1]) = set_calls

\* C4: prep_constraints before prep_problem ends in a fatal error, and solve
\* before prep_constraints ends in a fatal error without reaching the
\* external solver, with or without a warm start.
C4_PhaseOrder ==
    /\ (ret.op = "prep_constraints" /\ waypoints < 0) => ret.err # "ok"
    /\ (ret.op = "solve" /\ prep_calls = 0) => (ret.err # "ok" /\ solver_runs = <<>>)

Patterns == {S_intermediate, S_command, S_k, S_x, S_check_obs, S_th0}

\* C5: lookup by pattern returns, in declaration order, the positions of the
\* constraints whose names contain the pattern (none: the empty sequence);
\* after prep_constraints "intermediate" yields consecutive
\* (intermediate_x, intermediate_y, intermediate_th) triples, one per
\* sub-step of every segment in simulation order, each position indexing
\* the constraint of that name.
C5_Lookup ==
    /\ \A pat \in Patterns :
           LET idx == get_constraint_idx_by_pattern(constraints, pat)
           IN /\ \A q \in 1..Len(idx) : Contains(constraints[idx[q] + 1].name, pat)
              /\ \A q \in 1..(Len(idx) - 1) : idx[q] < idx[q + 1]
              /\ \A p \in 1..Len(constraints) :
                     Contains(constraints[p].name, pat) => \E q \in 1..Len(idx) : idx[q] = p - 1
    /\ PrepRan =>
           LET idx == get_constraint_idx_by_pattern(constraints, S_intermediate)
               at(q) == constraints[idx[q] + 1]
               jdx(q) == str(at(q).expr.steps - 1) \o str(at(q).expr.wp)
           IN /\ Len(idx) % 3 = 0
              /\ \A t \in 0..((Len(idx) \div 3) - 1) :
                     /\ at(3 * t + 1).name = S_intermediate_x \o jdx(3 * t + 1)
                     /\ at(3 * t + 2).name = S_intermediate_y \o jdx(3 * t + 1)
                     /\ at(3 * t + 3).name = S_intermediate_th \o jdx(3 * t + 1)
                     /\ at(3 * t + 1).expr = Sim(at(3 * t + 1).expr.wp, at(3 * t + 1).expr.steps, "x")
                     /\ at(3 * t + 2).expr = Sim(at(3 * t + 1).expr.wp, at(3 * t + 1).expr.steps, "y")
                     /\ at(3 * t + 3).expr = Sim(at(3 * t + 1).expr.wp, at(3 * t + 1).expr.steps, "theta")
                     /\ t > 0 =>
                            \/ at(3 * t - 2).expr.wp < at(3 * t + 1).expr.wp
                            \/ /\ at(3 * t - 2).expr.wp = at(3 * t + 1).expr.wp
                               /\ at(3 * t - 2).expr.steps < at(3 * t + 1).expr.steps
              /\ \A i \in 1..(number_of_waypoints - 1), st \in 1..granularity :
                     \E q \in 1..Len(idx) : at(q).expr = Sim(i, st, "x")

\* C6: for every segment, sub-step and obstacle, exactly one constraint is
\* registered on the running point after that sub-step, with lower bound 0
\* and no upper bound, whose value (cx-x)^2 + (cy-y)^2 - (r+inflate)^2 makes
\* it hold with equality on the inflated circle and fail strictly inside.
C6_Obstacles ==
    PrepRan =>
        \A i \in 1..(number_of_waypoints - 1), st \in 1..granularity,
           o \in 1..Len(obstacles[1]) :
            LET ps == {p \in 1..Len(constraints) :
                           constraints[p].expr = ObsExpr(i, st, obstacles[1][o])}
            IN /\ Cardinality(ps) = 1
               /\ \A p \in ps :
                      /\ BoundEq(constraints[p].lb, Fin(0, 1))
                      /\ BoundEq(constraints[p].ub, PosInf)
                      /\ \A x \in Coords, y \in Coords :
                             LET val == check_obstacle(constraints[p].expr.obs, x, y)
                                 d2 == (obstacles[1][o][1] - x) * (obstacles[1][o][1] - x)
                                       + (obstacles[1][o][2] - y) * (obstacles[1][o][2] - y)
                                 r2 == (obstacles[1][o][3] + obstacles[1][o][4])
                                       * (obstacles[1][o][3] + obstacles[1][o][4])
                             IN /\ d2 = r2 => (val = 0 /\ Satisfies(constraints[p], val))
                                /\ d2 < r2 => ~Satisfies(constraints[p], val)

\* initial_guess returned a vector on a planner whose prep_constraints has
\* registered its boundary equalities
GuessReturned ==
    /\ ret.op = "initial_guess"
    /\ ret.err = "ok"
    /\ prep_calls >= 1
    /\ Len(constraints) >= 6

PoseAt(val, i, st) ==
    /\ ValEq(GuessAt(val, i, "x"), Rat(st.x, 1))
    /\ ValEq(GuessAt(val, i, "y"), Rat(st.y, 1))
    /\ ValEq(GuessAt(val, i, "theta"), Rat(st.theta, 1))

\* C7 as stated: the guess returned after prep_constraints has its first
\* waypoint at the initial state and its last waypoint at the final state.
C7_Boundary ==
    GuessReturned =>
        /\ PoseAt(ret.val, 0, initial_state[1])
        /\ PoseAt(ret.val, number_of_waypoints - 1, final_state[1])

\* C7 as amended: the guess returned after prep_constraints has its first
\* waypoint at the initial state, so the three initial boundary equalities
\* hold exactly; its second waypoint is at the initial state too, so for
\* N = 2 the last waypoint is the initial pose, not the final state.
C7_FirstWaypoints ==
    GuessReturned =>
        /\ Len(ret.val) = 7 * number_of_waypoints
        /\ PoseAt(ret.val, 0, initial_state[1])
        /\ PoseAt(ret.val, 1, initial_state[1])

C7_Witness ==
    /\ GuessReturned
    /\ number_of_waypoints = 2
    /\ initial_state[1] = State(0, 0, 0)
    /\ final_state[1] = State(0 - 2, 0, 0)
    /\ PoseAt(ret.val, 1, State(0, 0, 0))

\* C8: initial_guess with equal initial and final x raises no division
\* fault and returns 7*N entries.
C8_NoDivisionFault ==
    (ret.op = "initial_guess" /\ initial_state # <<>> /\ final_state # <<>>
     /\ initial_state[1].x = final_state[1].x)
        => (ret.err = "ok" /\ Len(ret.val) = 7 * number_of_waypoints)

\* C9: the guess vector has 7*N entries in the declared order: at every
\* waypoint the k slot holds the guessed curvature, the s slot 0, the v slot
\* v_cruise and the t slot dt.
C9_GuessOrder ==
    GuessReturned =>
        LET dx == final_state[1].x - initial_state[1].x
            dy == final_state[1].y - initial_state[1].y
            v == Rat(v_cruise(robot).n, v_cruise(robot).d)
        IN /\ Len(ret.val) = 7 * number_of_waypoints
           /\ \A i \in 0..(number_of_waypoints - 1) :
                  /\ ValEq(GuessAt(ret.val, i, "k"), GuessK(dx, dy))
                  /\ ValEq(GuessAt(ret.val, i, "s"), Rat(0, 1))
                  /\ ValEq(GuessAt(ret.val, i, "v"), v)
                  /\ ValEq(GuessAt(ret.val, i, "t"), GuessDt(dx, dy, v, number_of_waypoints))

\* C10: for every waypoint i in 1..N-1 a box constraint on v_i is registered
\* with lower bound 0 and upper bound the robot's maximum linear velocity.
C10_VelocityBox ==
    PrepRan =>
        \A i \in 1..(number_of_waypoints - 1) :
            \E p \in 1..Len(constraints) :
                /\ constraints[p].name = S_v \o str(i)
                /\ constraints[p].expr = Var(i, "v")
                /\ BoundEq(constraints[p].lb, Fin(0, 1))
                /\ BoundEq(constraints[p].ub, Fin(robot.max_linear_velocity, 1))

====
